---- MODULE Spec2Model ----
(***************************************************************************)
(* Statement router of the validator network (network/src/router.rs):      *)
(* the deferred-statement buffer, Router::import_statement under           *)
(* concurrent callers, Router::broadcast_egress and the Router's lifecycle *)
(* (new / clone / drop).                                                   *)
(***************************************************************************)
EXTENDS Integers, Sequences, FiniteSets, TLC

\* ---------------------------------------------------------------- bounds
NumHashes == 1
NumSenders == 1
NumSignatures == 1
NumHandles == 3
MaxCalls == 2
MaxSequentialCalls == 3
MaxLifecycleCalls == 1
MaxLocalImports == 2
MaxLocalCandidates == 1
MaxWorkCalls == 1
MaxPayloads == 2
NumLockCallers == 2
MaxLockCalls == 2
MaxBufferOps == 3
MaxMessages == 4
MaxBatches == 2
NumTargets == 2

Hashes == 1..NumHashes
Senders == 1..NumSenders
Signatures == 1..NumSignatures
Handles == 1..NumHandles
Targets == 1..NumTargets

\* The round's parent hash (SessionDataFetcher::parent_hash); one round.
ParentHash == "parent"

VARIABLES
    deferred,        \* DeferredStatements.deferred : HashMap<Hash, Vec<SignedStatement>>
    known_traces,    \* DeferredStatements.known_traces : HashSet<StatementTrace>
    history,         \* the direct calls made on the buffer, with arguments and results
    tableCandidates, \* candidates the SharedTable has imported
    tableLog,        \* batches handed to SharedTable::import_remote_statements, in call order
    pc,              \* per handle: position inside import_statement
    statement,       \* per handle: the argument of the running import_statement
    statements,      \* per handle: the local batch `statements`
    producers,       \* per handle: the local `producers` returned by the table
    flushed,         \* per handle: the arrivals that preceded its drain of the buffer
    arrived,         \* per candidate hash: votes passed to push since the last drain of it
    calls,           \* number of import_statement calls made so far
    submitted,       \* the arguments of the calls of a single caller, in call order
    noted,           \* Knowledge: the (sender, statement) of every note_statement call, in order
    spawned,         \* the validation tasks handed to Executor::spawn, in order
    handle,          \* per handle: "none", "alive" or "dropped"
    dropGossip,      \* topics passed to NetworkService::drop_gossip, in call order
    outgoing,        \* the Outgoing argument of broadcast_egress
    broadcast,       \* whether broadcast_egress has run on `outgoing`
    gossip,          \* (topic, payload) pairs passed to NetworkService::gossip_message
    knowledgeCandidates, \* Knowledge: candidate hashes given to note_candidate
    validated,       \* the calls of SharedTable::import_validated, in order
    exit,            \* whether the round's exit future has completed
    bufferLock,      \* holder of the deferred_statements mutex, 0 when free
    knowledgeLock,   \* holder of the knowledge mutex, 0 when free
    received,        \* gossip payloads delivered on the attestation topic, in order
    checked          \* the items the checked_statements stream has produced, in order

bufferVars == <<deferred, known_traces, history>>
routerVars == <<tableCandidates, tableLog, pc, statement, statements, producers, flushed,
                arrived, calls, submitted, noted, spawned, handle, dropGossip>>
egressVars == <<outgoing, broadcast, gossip>>
workVars == <<knowledgeCandidates, validated, exit>>
lockVars == <<bufferLock, knowledgeLock>>
verifierVars == <<received, checked>>
vars == <<deferred, known_traces, history, tableCandidates, tableLog, pc,
          statement, statements, producers, flushed, arrived, calls, submitted, noted,
          spawned, handle, dropGossip, outgoing, broadcast, gossip,
          knowledgeCandidates, validated, exit, bufferLock, knowledgeLock,
          received, checked>>

\* ------------------------------------------------------------ statements
\* A candidate receipt; its hash is a projection of its content.
Receipts == {<<"receipt", h>> : h \in Hashes}

ReceiptHash(receipt) == receipt[2]

CandidateStatements ==
    [kind : {"Candidate"}, data : Receipts, sender : Senders, signature : Signatures]

VoteStatements ==
    [kind : {"Valid", "Invalid"}, data : Hashes, sender : Senders, signature : Signatures]

SignedStatements == CandidateStatements \cup VoteStatements

\* enum StatementTrace { Valid(SessionKey, Hash), Invalid(SessionKey, Hash) }
StatementTrace(kind, sender, hash) == <<kind, sender, hash>>

TraceOf(s) == StatementTrace(s.kind, s.sender, s.data)

\* fn attestation_topic(parent_hash): hash of parent_hash ++ "attestations"
attestation_topic(parent_hash) == <<"blake2_256", parent_hash, "attestations">>

\* ------------------------------------------------- DeferredStatements
\* DeferredStatements::new
DeferredNew == [deferred |-> <<>>, known_traces |-> {}]

\* a queue that grows at its front instead of its back
EntryPushFront(map, hash, s) ==
    IF hash \in DOMAIN map
    THEN [map EXCEPT ![hash] = <<s>> \o @]
    ELSE [k \in (DOMAIN map) \cup {hash} |-> IF k = hash THEN <<s>> ELSE map[k]]

\* HashMap::entry(hash).or_insert_with(Vec::new).push(s)
EntryPush(map, hash, s) ==
    IF hash \in DOMAIN map
    THEN [map EXCEPT ![hash] = Append(@, s)]
    ELSE [k \in (DOMAIN map) \cup {hash} |-> IF k = hash THEN <<s>> ELSE map[k]]

\* a remove that leaves the entry in the map
MapRemoveNothing(map, hash) == map

\* HashMap::remove(hash), the map that is left
MapRemove(map, hash) == [k \in (DOMAIN map) \ {hash} |-> map[k]]

\* push without the known_traces test: every vote is queued
push_nodedup(ds, s) ==
    IF s.kind = "Candidate"
    THEN ds
    ELSE [deferred |-> EntryPush(ds.deferred, s.data, s),
          known_traces |-> ds.known_traces \cup {StatementTrace(s.kind, s.sender, s.data)}]

\* push that queues a Candidate statement under its candidate's hash
push_candidate_queued(ds, s) ==
    IF s.kind = "Candidate"
    THEN [deferred |-> EntryPush(ds.deferred, ReceiptHash(s.data), s),
          known_traces |-> ds.known_traces]
    ELSE LET hash == s.data
             trace == StatementTrace(s.kind, s.sender, hash)
         IN  IF trace \notin ds.known_traces
             THEN [deferred |-> EntryPush(ds.deferred, hash, s),
                   known_traces |-> ds.known_traces \cup {trace}]
             ELSE ds

\* DeferredStatements::push
push(ds, s) ==
    IF s.kind = "Candidate"
    THEN ds
    ELSE LET hash == s.data
             trace == StatementTrace(s.kind, s.sender, hash)
         IN  IF trace \notin ds.known_traces
             THEN [deferred |-> EntryPush(ds.deferred, hash, s),
                   known_traces |-> ds.known_traces \cup {trace}]
             ELSE ds

\* the traces collected by the loop of get_deferred over the removed queue
RECURSIVE CollectTraces(_)
CollectTraces(queue) ==
    IF queue = <<>>
    THEN <<>>
    ELSE IF Head(queue).kind = "Candidate"
         THEN CollectTraces(Tail(queue))
         ELSE <<TraceOf(Head(queue))>> \o CollectTraces(Tail(queue))

SeqRange(q) == {q[i] : i \in 1..Len(q)}

\* get_deferred that leaves the drained traces in known_traces
get_deferred_keep_traces(ds, hash) ==
    IF hash \notin DOMAIN ds.deferred
    THEN [ds |-> ds, statements |-> <<>>, traces |-> <<>>]
    ELSE [ds |-> [deferred |-> MapRemove(ds.deferred, hash),
                  known_traces |-> ds.known_traces],
          statements |-> ds.deferred[hash],
          traces |-> CollectTraces(ds.deferred[hash])]

\* DeferredStatements::get_deferred: the new buffer and the returned pair
get_deferred(ds, hash) ==
    IF hash \notin DOMAIN ds.deferred
    THEN [ds |-> ds, statements |-> <<>>, traces |-> <<>>]
    ELSE LET queue == ds.deferred[hash]
             traces == CollectTraces(queue)
         IN  [ds |-> [deferred |-> MapRemove(ds.deferred, hash),
                      known_traces |-> ds.known_traces \ SeqRange(traces)],
              statements |-> queue,
              traces |-> traces]

Buffer == [deferred |-> deferred, known_traces |-> known_traces]

\* ------------------------------------------------------ broadcast_egress
\* The payload of an outgoing message is opaque to broadcast_egress, which only
\* clones and wraps it; the n-th message of an Outgoing carries payload n, so
\* that all payloads differ.
OutgoingMessage(target, n) == [target |-> target, data |-> n]

\* validation::incoming_message_topic(parent_hash, target)
incoming_message_topic(parent_hash, target) == <<"incoming", parent_hash, target>>

\* length of the first run of LinearGroupBy: the longest prefix of messages in
\* which every two neighbours satisfy a.target == b.target
RECURSIVE RunLength(_)
RunLength(messages) ==
    IF Len(messages) <= 1
    THEN Len(messages)
    ELSE IF messages[1].target = messages[2].target
         THEN 1 + RunLength(Tail(messages))
         ELSE 1

\* grouping by key: one group per target, whatever lies between its messages
RECURSIVE GroupByTarget(_)
GroupByTarget(messages) ==
    IF messages = <<>>
    THEN <<>>
    ELSE LET Same(m) == m.target = messages[1].target
             Other(m) == m.target # messages[1].target
         IN  <<SelectSeq(messages, Same)>> \o GroupByTarget(SelectSeq(messages, Other))

\* LinearGroupBy::new(&messages, |a, b| a.target == b.target), all its groups
RECURSIVE LinearGroupBy(_)
LinearGroupBy(messages) ==
    IF messages = <<>>
    THEN <<>>
    ELSE LET n == RunLength(messages)
         IN  <<SubSeq(messages, 1, n)>> \o LinearGroupBy(SubSeq(messages, n + 1, Len(messages)))

\* lines 180-198: the gossip_message calls made for the groups of one egress
RECURSIVE GroupSends(_, _)
GroupSends(source, groups) ==
    IF groups = <<>>
    THEN <<>>
    ELSE LET group == Head(groups)
         IN  IF group = <<>>
             THEN GroupSends(source, Tail(groups))
             ELSE LET target == group[1].target
                      group_messages == [i \in 1..Len(group) |-> <<"Message", group[i].data>>]
                  IN  <<[topic |-> incoming_message_topic(ParentHash, target),
                         message |-> <<source, group_messages>>]>>
                      \o GroupSends(source, Tail(groups))

\* Router::broadcast_egress: the gossip_message calls it makes, in order
RECURSIVE broadcast_egress(_)
broadcast_egress(out) ==
    IF out = <<>>
    THEN <<>>
    ELSE LET egress == Head(out)
         IN  GroupSends(egress.from, LinearGroupBy(egress.messages))
             \o broadcast_egress(Tail(out))

\* ---------------------------------------------- buffer driven directly
NoOp == [op |-> "none"]

\* Router::new: one handle, an empty buffer, nothing imported
RouterNew ==
    /\ tableCandidates = {}
    /\ tableLog = <<>>
    /\ pc = [t \in Handles |-> "idle"]
    /\ statement = [t \in Handles |-> NoOp]
    /\ statements = [t \in Handles |-> <<>>]
    /\ producers = [t \in Handles |-> <<>>]
    /\ flushed = [t \in Handles |-> <<>>]
    /\ arrived = [h \in Hashes |-> <<>>]
    /\ calls = 0
    /\ submitted = <<>>
    /\ noted = <<>>
    /\ spawned = <<>>
    /\ handle = [t \in Handles |-> IF t = 1 THEN "alive" ELSE "none"]
    /\ dropGossip = <<>>

EgressIdle ==
    /\ outgoing = <<>>
    /\ broadcast = FALSE
    /\ gossip = <<>>

\* nothing validated, the exit future pending, both mutexes free, no gossip in
RoundIdle ==
    /\ knowledgeCandidates = {}
    /\ validated = <<>>
    /\ exit = FALSE
    /\ bufferLock = 0
    /\ knowledgeLock = 0
    /\ received = <<>>
    /\ checked = <<>>

BufferInit ==
    /\ deferred = DeferredNew.deferred
    /\ known_traces = DeferredNew.known_traces
    /\ history = <<>>

\* the Router of a round, not yet shared
LifecycleInit ==
    /\ BufferInit
    /\ RouterNew
    /\ EgressIdle
    /\ RoundIdle

\* the Router of a round with one clone in the hands of every caller
RouterShared ==
    /\ tableCandidates = {}
    /\ tableLog = <<>>
    /\ pc = [t \in Handles |-> "idle"]
    /\ statement = [t \in Handles |-> NoOp]
    /\ statements = [t \in Handles |-> <<>>]
    /\ producers = [t \in Handles |-> <<>>]
    /\ flushed = [t \in Handles |-> <<>>]
    /\ arrived = [h \in Hashes |-> <<>>]
    /\ calls = 0
    /\ submitted = <<>>
    /\ noted = <<>>
    /\ spawned = <<>>
    /\ handle = [t \in Handles |-> "alive"]
    /\ dropGossip = <<>>

Init ==
    /\ BufferInit
    /\ RouterShared
    /\ EgressIdle
    /\ RoundIdle

\* a direct call of DeferredStatements::push
BufferPush(s) ==
    /\ Len(history) < MaxBufferOps
    /\ LET ds == push(Buffer, s)
       IN  /\ deferred' = ds.deferred
           /\ known_traces' = ds.known_traces
           /\ history' = Append(history, [op |-> "push", arg |-> s,
                                          statements |-> <<>>, traces |-> <<>>])
    /\ UNCHANGED <<routerVars, egressVars, workVars, lockVars, verifierVars>>

\* a direct call of DeferredStatements::get_deferred
BufferGetDeferred(hash) ==
    /\ Len(history) < MaxBufferOps
    /\ LET r == get_deferred(Buffer, hash)
       IN  /\ deferred' = r.ds.deferred
           /\ known_traces' = r.ds.known_traces
           /\ history' = Append(history, [op |-> "get_deferred", arg |-> hash,
                                          statements |-> r.statements,
                                          traces |-> r.traces])
    /\ UNCHANGED <<routerVars, egressVars, workVars, lockVars, verifierVars>>

\* a call of DeferredStatements::new: the buffer is replaced by a fresh one
BufferNew ==
    /\ Len(history) < MaxBufferOps
    /\ deferred' = DeferredNew.deferred
    /\ known_traces' = DeferredNew.known_traces
    /\ history' = Append(history, [op |-> "new", arg |-> <<>>,
                                   statements |-> <<>>, traces |-> <<>>])
    /\ UNCHANGED <<routerVars, egressVars, workVars, lockVars, verifierVars>>

BufferNext ==
    \/ \E s \in SignedStatements : BufferPush(s)
    \/ \E hash \in Hashes : BufferGetDeferred(hash)
    \/ BufferNew

SpecBuffer == Init /\ [][BufferNext]_vars

\* ------------------------------------------------------------ SharedTable
\* SharedTable::with_candidate(hash, |c| c.map(|_| *hash))
with_candidate(known, hash) ==
    IF hash \in known THEN <<"Some", hash>> ELSE <<"None">>

\* the candidates a batch defines
RECURSIVE BatchCandidates(_)
BatchCandidates(batch) ==
    IF batch = <<>>
    THEN {}
    ELSE (IF Head(batch).kind = "Candidate" THEN {ReceiptHash(Head(batch).data)} ELSE {})
         \cup BatchCandidates(Tail(batch))

\* SharedTable::import_remote_statements: per statement, the work it unlocks.
\* A Candidate statement unlocks work the first time its candidate is imported.
RECURSIVE TableProducers(_, _)
TableProducers(known, batch) ==
    IF batch = <<>>
    THEN <<>>
    ELSE LET s == Head(batch)
             fresh == s.kind = "Candidate" /\ ReceiptHash(s.data) \notin known
         IN  <<IF fresh THEN <<"Some", ReceiptHash(s.data)>> ELSE <<"None">>>>
             \o TableProducers(known \cup BatchCandidates(<<s>>), Tail(batch))

\* ------------------------------------------------------------------ Router
RouterTopic == attestation_topic(ParentHash)

\* candidate_data that takes every vote's candidate as known
candidate_data_unchecked(known, s) ==
    <<"Some", IF s.kind = "Candidate" THEN ReceiptHash(s.data) ELSE s.data>>

\* import_statement, lines 129-134: the match computing candidate_data
candidate_data(known, s) ==
    IF s.kind = "Candidate"
    THEN <<"Some", ReceiptHash(s.data)>>
    ELSE with_candidate(known, s.data)

\* the c_hash of a statement that was not deferred
c_hash(s) == IF s.kind = "Candidate" THEN ReceiptHash(s.data) ELSE s.data

\* the batch with the current statement put last
ImportBatchAppended(s, drained) == drained \o <<s>>

\* import_statement, lines 145-153: the batch built around the drained queue
ImportBatch(s, drained) == <<s>> \o drained

\* import_statement is entered; candidate_data is computed from the table
ImportEnter(t, s) ==
    /\ handle[t] = "alive"
    /\ pc[t] = "idle"
    /\ statement' = [statement EXCEPT ![t] = s]
    /\ calls' = calls + 1
    /\ pc' = [pc EXCEPT ![t] =
                IF candidate_data(tableCandidates, s)[1] = "None" THEN "push" ELSE "drain"]
    /\ UNCHANGED <<bufferVars, egressVars, workVars, lockVars, verifierVars, tableCandidates, tableLog, statements,
                   producers, flushed, arrived, noted, spawned, handle, dropGossip>>

\* a call of import_statement by one of the concurrent callers
ImportBegin(t, s) ==
    /\ calls < MaxCalls
    /\ ImportEnter(t, s)
    /\ UNCHANGED submitted

\* a call of import_statement by the single caller
ImportBeginSequential(s) ==
    /\ calls < MaxSequentialCalls
    /\ ImportEnter(1, s)
    /\ submitted' = Append(submitted, s)

\* a call of import_statement during the life of the handles
ImportBeginLifecycle(t, s) ==
    /\ calls < MaxLifecycleCalls
    /\ ImportEnter(t, s)
    /\ UNCHANGED submitted

\* lines 137-140: self.deferred_statements.lock().push(statement); return
ImportDefer(t) ==
    /\ pc[t] = "push"
    /\ LET ds == push(Buffer, statement[t])
       IN  /\ deferred' = ds.deferred
           /\ known_traces' = ds.known_traces
    /\ arrived' = [arrived EXCEPT ![statement[t].data] = Append(@, statement[t])]
    /\ pc' = [pc EXCEPT ![t] = "idle"]
    /\ statement' = [statement EXCEPT ![t] = NoOp]
    /\ UNCHANGED <<history, egressVars, workVars, lockVars, verifierVars, tableCandidates, tableLog, statements,
                   producers, flushed, calls, submitted, noted, spawned, handle, dropGossip>>

\* lines 145-153: drain the statements pending on the candidate, prepend this one
ImportDrain(t) ==
    /\ pc[t] = "drain"
    /\ IF statement[t].kind = "Candidate"
       THEN LET hash == c_hash(statement[t])
                r == get_deferred(Buffer, hash)
            IN  /\ deferred' = r.ds.deferred
                /\ known_traces' = r.ds.known_traces
                /\ statements' = [statements EXCEPT ![t] = ImportBatch(statement[t], r.statements)]
                /\ flushed' = [flushed EXCEPT ![t] = arrived[hash]]
                /\ arrived' = [arrived EXCEPT ![hash] = <<>>]
       ELSE /\ statements' = [statements EXCEPT ![t] = ImportBatch(statement[t], <<>>)]
            /\ flushed' = [flushed EXCEPT ![t] = <<>>]
            /\ UNCHANGED <<deferred, known_traces, arrived>>
    /\ pc' = [pc EXCEPT ![t] = "import"]
    /\ UNCHANGED <<history, egressVars, workVars, lockVars, verifierVars, tableCandidates, tableLog, statement,
                   producers, calls, submitted, noted, spawned, handle, dropGossip>>

\* lines 154-157: self.table.import_remote_statements(self, statements)
ImportTable(t) ==
    /\ pc[t] = "import"
    /\ tableLog' = Append(tableLog, [statements |-> statements[t],
                                     known |-> tableCandidates,
                                     arrived |-> flushed[t]])
    /\ producers' = [producers EXCEPT ![t] = TableProducers(tableCandidates, statements[t])]
    /\ tableCandidates' = tableCandidates \cup BatchCandidates(statements[t])
    /\ pc' = [pc EXCEPT ![t] = "dispatch"]
    /\ UNCHANGED <<bufferVars, egressVars, workVars, lockVars, verifierVars, statement, statements, flushed, arrived,
                   calls, submitted, noted, spawned, handle, dropGossip>>

\* lines 202-227, create_work: the task as handed to the executor, racing the
\* exit future (select2); nothing of it has run yet
create_work(candidate_hash) ==
    [candidate_hash |-> candidate_hash, state |-> "pending", fetch |-> "none",
     exitFirst |-> FALSE, effects |-> {}]

Min(a, b) == IF a <= b THEN a ELSE b

\* a loop that notes only the statements that unlocked a producer
DispatchNotesUnlocked(prods, batch) ==
    LET unlocked == SelectSeq([i \in 1..Min(Len(prods), Len(batch)) |-> <<prods[i], batch[i]>>],
                             LAMBDA pair : pair[1][1] = "Some")
    IN  [i \in 1..Len(unlocked) |-> <<unlocked[i][2].sender, unlocked[i][2]>>]

\* lines 159-160: the note_statement calls of the loop over producers.zip(statements)
DispatchNotes(prods, batch) ==
    [i \in 1..Min(Len(prods), Len(batch)) |-> <<batch[i].sender, batch[i]>>]

\* a loop that spawns a task for every statement of the batch
RECURSIVE DispatchWorkAll(_, _, _)
DispatchWorkAll(hash, prods, batch) ==
    IF prods = <<>> \/ batch = <<>>
    THEN <<>>
    ELSE <<create_work(hash)>> \o DispatchWorkAll(hash, Tail(prods), Tail(batch))

\* lines 159-166: the tasks spawned by the loop over producers.zip(statements)
RECURSIVE DispatchWork(_, _, _)
DispatchWork(hash, prods, batch) ==
    IF prods = <<>> \/ batch = <<>>
    THEN <<>>
    ELSE (IF Head(prods)[1] = "Some" THEN <<create_work(hash)>> ELSE <<>>)
         \o DispatchWork(hash, Tail(prods), Tail(batch))

\* lines 159-167: note every statement of the batch, spawn the unlocked work
ImportDispatch(t) ==
    /\ pc[t] = "dispatch"
    /\ noted' = noted \o DispatchNotes(producers[t], statements[t])
    /\ spawned' = spawned \o DispatchWork(c_hash(statement[t]), producers[t], statements[t])
    /\ pc' = [pc EXCEPT ![t] = "idle"]
    /\ statement' = [statement EXCEPT ![t] = NoOp]
    /\ statements' = [statements EXCEPT ![t] = <<>>]
    /\ producers' = [producers EXCEPT ![t] = <<>>]
    /\ flushed' = [flushed EXCEPT ![t] = <<>>]
    /\ UNCHANGED <<bufferVars, egressVars, workVars, lockVars, verifierVars, tableCandidates, tableLog, arrived,
                   calls, submitted, handle, dropGossip>>

\* the key this node signs with, and the signature it makes
LocalKey == 0
LocalSignature == 0

\* SharedTable::import_validated: the statement signed for a validated candidate
import_validated(kind, data) ==
    [kind |-> kind, data |-> data, sender |-> LocalKey, signature |-> LocalSignature]

\* SignedStatement::encode, the payload put on the gossip topic
Encode(s) == <<"SignedStatement", s>>

\* SignedStatement::decode: Some(statement) for an encoded statement, else None
Decode(msg) == IF msg[1] = "SignedStatement" THEN <<"Some", msg[2]>> ELSE <<"None">>

\* the gossip_message call of lines 223 and 248
GossipStatement(s) == [topic |-> attestation_topic(ParentHash), message |-> Encode(s)]

\* a call of local_candidate(receipt, block_data, extrinsic) by the single
\* caller, up to line 245: let statement = self.table.import_validated(validated)
LocalImportValidated(receipt) ==
    /\ handle[1] = "alive"
    /\ pc[1] = "idle"
    /\ Len(SelectSeq(validated, LAMBDA v : v.kind = "Candidate")) < MaxLocalCandidates
    /\ LET signed == import_validated("Candidate", receipt)
       IN  /\ validated' = Append(validated, signed)
           /\ tableCandidates' = tableCandidates \cup BatchCandidates(<<signed>>)
           /\ statement' = [statement EXCEPT ![1] = signed]
    /\ pc' = [pc EXCEPT ![1] = "local_note"]
    /\ UNCHANGED <<bufferVars, egressVars, lockVars, verifierVars, knowledgeCandidates, exit,
                   tableLog, statements, producers, flushed, arrived, calls, submitted, noted,
                   spawned, handle, dropGossip>>

\* line 247: knowledge().lock().note_candidate(hash, Some(block_data), Some(extrinsic))
LocalNoteCandidate(t) ==
    /\ pc[t] = "local_note"
    /\ knowledgeCandidates' = knowledgeCandidates \cup {c_hash(statement[t])}
    /\ pc' = [pc EXCEPT ![t] = "local_gossip"]
    /\ UNCHANGED <<bufferVars, egressVars, lockVars, verifierVars, validated, exit,
                   tableCandidates, tableLog, statement, statements, producers, flushed,
                   arrived, calls, submitted, noted, spawned, handle, dropGossip>>

\* line 248: self.network.gossip_message(self.attestation_topic, statement.encode())
LocalGossip(t) ==
    /\ pc[t] = "local_gossip"
    /\ gossip' = Append(gossip, GossipStatement(statement[t]))
    /\ pc' = [pc EXCEPT ![t] = "idle"]
    /\ statement' = [statement EXCEPT ![t] = NoOp]
    /\ UNCHANGED <<bufferVars, workVars, lockVars, verifierVars, outgoing, broadcast,
                   tableCandidates, tableLog, statements, producers, flushed, arrived, calls,
                   submitted, noted, spawned, handle, dropGossip>>

\* a call of import_statement by the caller whose spawned tasks are run
ImportBeginWork(s) ==
    /\ calls < MaxWorkCalls
    /\ ImportEnter(1, s)
    /\ UNCHANGED submitted

\* what producer.prime(api) resolves to: the vote of a validated candidate, or
\* the io::Error of a failed fetch or execution
FetchOutcomes == {"Valid", "Invalid", "Error"}

\* the fetch/validate step of task i finishes; the task has not been polled since
FetchArrives(i, outcome) ==
    /\ i \in 1..Len(spawned)
    /\ spawned[i].state = "pending"
    /\ spawned[i].fetch = "none"
    /\ spawned' = [spawned EXCEPT ![i].fetch = outcome]
    /\ UNCHANGED <<bufferVars, egressVars, workVars, lockVars, verifierVars, tableCandidates,
                   tableLog, pc, statement, statements, producers, flushed, arrived, calls,
                   submitted, noted, handle, dropGossip>>

\* the exit future of the round completes
ExitFires ==
    /\ ~exit
    /\ exit' = TRUE
    /\ spawned' = [i \in 1..Len(spawned) |->
                     IF spawned[i].state = "pending" /\ spawned[i].fetch = "none"
                     THEN [spawned[i] EXCEPT !.exitFirst = TRUE]
                     ELSE spawned[i]]
    /\ UNCHANGED <<bufferVars, egressVars, lockVars, verifierVars, knowledgeCandidates, validated,
                   tableCandidates, tableLog, pc, statement, statements, producers, flushed,
                   arrived, calls, submitted, noted, handle, dropGossip>>

\* a poll that finds the work ready but records no payload
TaskNoteNothing(i) ==
    /\ i \in 1..Len(spawned)
    /\ spawned[i].state = "pending"
    /\ spawned[i].fetch \in {"Valid", "Invalid"}
    /\ spawned' = [spawned EXCEPT ![i].state = "importing"]
    /\ UNCHANGED <<bufferVars, egressVars, workVars, lockVars, verifierVars, tableCandidates,
                   tableLog, pc, statement, statements, producers, flushed, arrived, calls,
                   submitted, noted, handle, dropGossip>>

\* select2 polls the work first; it is ready with a Validated, and the closure
\* of lines 213-218 starts: knowledge.lock().note_candidate(candidate_hash, ..)
TaskNoteCandidate(i) ==
    /\ i \in 1..Len(spawned)
    /\ spawned[i].state = "pending"
    /\ spawned[i].fetch \in {"Valid", "Invalid"}
    /\ knowledgeCandidates' = knowledgeCandidates \cup {spawned[i].candidate_hash}
    /\ spawned' = [spawned EXCEPT ![i].state = "importing",
                                  ![i].effects = @ \cup {"note_candidate"}]
    /\ UNCHANGED <<bufferVars, egressVars, lockVars, verifierVars, validated, exit,
                   tableCandidates, tableLog, pc, statement, statements, producers, flushed,
                   arrived, calls, submitted, noted, handle, dropGossip>>

\* lines 222-223: let signed = table.import_validated(validated);
\* network.gossip_message(attestation_topic, signed.encode())
TaskPropagate(i) ==
    /\ i \in 1..Len(spawned)
    /\ spawned[i].state = "importing"
    /\ LET signed == import_validated(spawned[i].fetch, spawned[i].candidate_hash)
       IN  /\ validated' = Append(validated, signed)
           /\ tableCandidates' = tableCandidates \cup BatchCandidates(<<signed>>)
           /\ gossip' = Append(gossip, GossipStatement(signed))
    /\ spawned' = [spawned EXCEPT ![i].state = "done",
                                  ![i].effects = @ \cup {"import_validated", "gossip_message"}]
    /\ UNCHANGED <<bufferVars, lockVars, verifierVars, knowledgeCandidates, exit, outgoing,
                   broadcast, tableLog, pc, statement, statements, producers, flushed, arrived,
                   calls, submitted, noted, handle, dropGossip>>

\* a failure that is retried: the task ends and a new one is spawned for the work
TaskFailRespawn(i) ==
    /\ i \in 1..Len(spawned)
    /\ spawned[i].state = "pending"
    /\ spawned[i].fetch = "Error"
    /\ spawned' = Append([spawned EXCEPT ![i].state = "failed"],
                         create_work(spawned[i].candidate_hash))
    /\ UNCHANGED <<bufferVars, egressVars, workVars, lockVars, verifierVars, tableCandidates,
                   tableLog, pc, statement, statements, producers, flushed, arrived, calls,
                   submitted, noted, handle, dropGossip>>

\* select2 polls the work first; it is ready with an error: map_err logs it
\* (line 225) and the task ends
TaskFail(i) ==
    /\ i \in 1..Len(spawned)
    /\ spawned[i].state = "pending"
    /\ spawned[i].fetch = "Error"
    /\ spawned' = [spawned EXCEPT ![i].state = "failed"]
    /\ UNCHANGED <<bufferVars, egressVars, workVars, lockVars, verifierVars, tableCandidates,
                   tableLog, pc, statement, statements, producers, flushed, arrived, calls,
                   submitted, noted, handle, dropGossip>>

\* a cancellation that still records the payload of the candidate
TaskCancelAfterNote(i) ==
    /\ i \in 1..Len(spawned)
    /\ spawned[i].state = "pending"
    /\ spawned[i].fetch = "none"
    /\ exit
    /\ knowledgeCandidates' = knowledgeCandidates \cup {spawned[i].candidate_hash}
    /\ spawned' = [spawned EXCEPT ![i].state = "cancelled",
                                  ![i].effects = @ \cup {"note_candidate"}]
    /\ UNCHANGED <<bufferVars, egressVars, lockVars, verifierVars, validated, exit,
                   tableCandidates, tableLog, pc, statement, statements, producers, flushed,
                   arrived, calls, submitted, noted, handle, dropGossip>>

\* select2 polls the work, which is not ready, then the exit future, which is:
\* the task ends and the work is dropped (line 164)
TaskCancel(i) ==
    /\ i \in 1..Len(spawned)
    /\ spawned[i].state = "pending"
    /\ spawned[i].fetch = "none"
    /\ exit
    /\ spawned' = [spawned EXCEPT ![i].state = "cancelled"]
    /\ UNCHANGED <<bufferVars, egressVars, workVars, lockVars, verifierVars, tableCandidates,
                   tableLog, pc, statement, statements, producers, flushed, arrived, calls,
                   submitted, noted, handle, dropGossip>>

\* a call of import_statement by the caller that also submits local candidates
ImportBeginLocal(s) ==
    /\ calls < MaxLocalImports
    /\ ImportEnter(1, s)
    /\ UNCHANGED submitted

\* impl Clone for Router: a further handle on the same table, buffer and topic
Clone(t, u) ==
    /\ handle[t] = "alive"
    /\ handle[u] = "none"
    /\ handle' = [handle EXCEPT ![u] = "alive"]
    /\ UNCHANGED <<bufferVars, egressVars, workVars, lockVars, verifierVars, tableCandidates, tableLog, pc, statement,
                   statements, producers, flushed, arrived, calls, submitted, noted, spawned,
                   dropGossip>>

\* a drop that releases the handle without unsubscribing
DropSilently(t) ==
    /\ handle[t] = "alive"
    /\ pc[t] = "idle"
    /\ handle' = [handle EXCEPT ![t] = "dropped"]
    /\ UNCHANGED <<bufferVars, egressVars, workVars, lockVars, verifierVars, tableCandidates, tableLog, pc, statement,
                   statements, producers, flushed, arrived, calls, submitted, noted, spawned,
                   dropGossip>>

\* impl Drop for Router
Drop(t) ==
    /\ handle[t] = "alive"
    /\ pc[t] = "idle"
    /\ handle' = [handle EXCEPT ![t] = "dropped"]
    /\ dropGossip' = Append(dropGossip, RouterTopic)
    /\ UNCHANGED <<bufferVars, egressVars, workVars, lockVars, verifierVars, tableCandidates, tableLog, pc, statement,
                   statements, producers, flushed, arrived, calls, submitted, noted, spawned>>

\* concurrent import_statement calls on handles sharing table and buffer
Next ==
    \/ \E t \in Handles, s \in SignedStatements : ImportBegin(t, s)
    \/ \E t \in Handles : ImportDefer(t)
    \/ \E t \in Handles : ImportDrain(t)
    \/ \E t \in Handles : ImportTable(t)
    \/ \E t \in Handles : ImportDispatch(t)

Spec == Init /\ [][Next]_vars

\* one handle, never cloned: import_statement calls one after the other
SequentialNext ==
    \/ \E s \in SignedStatements : ImportBeginSequential(s)
    \/ ImportDefer(1)
    \/ ImportDrain(1)
    \/ ImportTable(1)
    \/ ImportDispatch(1)

SpecSequential == LifecycleInit /\ [][SequentialNext]_vars

\* the handles of one Router: cloned, used and dropped
LifecycleNext ==
    \/ \E t \in Handles, s \in SignedStatements : ImportBeginLifecycle(t, s)
    \/ \E t \in Handles : ImportDefer(t)
    \/ \E t \in Handles : ImportDrain(t)
    \/ \E t \in Handles : ImportTable(t)
    \/ \E t \in Handles : ImportDispatch(t)
    \/ \E t, u \in Handles : Clone(t, u)
    \/ \E t \in Handles : Drop(t)

SpecLifecycle == LifecycleInit /\ [][LifecycleNext]_vars

\* ------------------------------------ import_statement, lock by lock
\* the threads that call import_statement while the mutexes are watched
LockCallers == 1..NumLockCallers

\* the statements of one sender: who signed a statement plays no part in the
\* locking
LockStatements == {s \in SignedStatements : s.sender = 1 /\ s.signature = 1}

\* a call of import_statement by a thread that holds no lock
BeginLocked(t, s) ==
    /\ calls < MaxLockCalls
    /\ bufferLock # t
    /\ knowledgeLock # t
    /\ ImportEnter(t, s)
    /\ UNCHANGED submitted

\* self.deferred_statements.lock() of line 138 or of line 146
LockBuffer(t) ==
    /\ \/ pc[t] = "push"
       \/ pc[t] = "drain" /\ statement[t].kind = "Candidate"
    /\ bufferLock = 0
    /\ bufferLock' = t
    /\ UNCHANGED <<bufferVars, routerVars, egressVars, workVars, verifierVars, knowledgeLock>>

\* line 138 under the guard: push(statement)
DeferLocked(t) ==
    /\ bufferLock = t
    /\ ImportDefer(t)

\* lines 145-153; get_deferred of line 146 runs under the guard
DrainLocked(t) ==
    /\ pc[t] = "drain"
    /\ statement[t].kind = "Candidate" => bufferLock = t
    /\ ImportDrain(t)

\* a guard that is kept until import_statement returns
UnlockBufferAtReturn(t) ==
    /\ bufferLock = t
    /\ pc[t] = "idle"
    /\ bufferLock' = 0
    /\ UNCHANGED <<bufferVars, routerVars, egressVars, workVars, verifierVars, knowledgeLock>>

\* the guard, a temporary, is dropped at the end of its statement: line 138
\* after the push, line 149 after get_deferred
UnlockBuffer(t) ==
    /\ bufferLock = t
    /\ pc[t] \in {"idle", "import"}
    /\ bufferLock' = 0
    /\ UNCHANGED <<bufferVars, routerVars, egressVars, workVars, verifierVars, knowledgeLock>>

\* lines 154-157, reached once the statement of lines 145-149 has ended
TableUnlocked(t) ==
    /\ bufferLock # t
    /\ ImportTable(t)

\* line 160: self.fetcher.knowledge().lock(), for the next pair of the loop
LockKnowledge(t) ==
    /\ pc[t] = "dispatch"
    /\ statements[t] # <<>>
    /\ producers[t] # <<>>
    /\ knowledgeLock = 0
    /\ knowledgeLock' = t
    /\ UNCHANGED <<bufferVars, routerVars, egressVars, workVars, verifierVars, bufferLock>>

\* line 160 under the guard: note_statement(sender, statement); the guard is
\* dropped at the end of the statement
NoteLocked(t) ==
    /\ pc[t] = "dispatch"
    /\ knowledgeLock = t
    /\ noted' = noted \o DispatchNotes(<<Head(producers[t])>>, <<Head(statements[t])>>)
    /\ knowledgeLock' = 0
    /\ pc' = [pc EXCEPT ![t] = "spawn"]
    /\ UNCHANGED <<bufferVars, egressVars, workVars, verifierVars, bufferLock, tableCandidates,
                   tableLog, statement, statements, producers, flushed, arrived, calls,
                   submitted, spawned, handle, dropGossip>>

\* lines 162-166 for the pair just noted, and on to the next pair
SpawnUnlocked(t) ==
    /\ pc[t] = "spawn"
    /\ spawned' = spawned \o DispatchWork(c_hash(statement[t]), <<Head(producers[t])>>,
                                           <<Head(statements[t])>>)
    /\ producers' = [producers EXCEPT ![t] = Tail(@)]
    /\ statements' = [statements EXCEPT ![t] = Tail(@)]
    /\ pc' = [pc EXCEPT ![t] = "dispatch"]
    /\ UNCHANGED <<bufferVars, egressVars, workVars, lockVars, verifierVars, tableCandidates,
                   tableLog, statement, flushed, arrived, calls, submitted, noted, handle,
                   dropGossip>>

\* lines 167-168: the loop has run out of pairs and import_statement returns
DispatchReturn(t) ==
    /\ pc[t] = "dispatch"
    /\ statements[t] = <<>> \/ producers[t] = <<>>
    /\ knowledgeLock # t
    /\ ImportDispatch(t)

\* the steps of one thread inside import_statement
LockStep(t) ==
    \/ LockBuffer(t)
    \/ DeferLocked(t)
    \/ DrainLocked(t)
    \/ UnlockBuffer(t)
    \/ TableUnlocked(t)
    \/ LockKnowledge(t)
    \/ NoteLocked(t)
    \/ SpawnUnlocked(t)
    \/ DispatchReturn(t)

LocksNext ==
    \/ \E t \in LockCallers, s \in LockStatements : BeginLocked(t, s)
    \/ \E t \in LockCallers : LockBuffer(t)
    \/ \E t \in LockCallers : DeferLocked(t)
    \/ \E t \in LockCallers : DrainLocked(t)
    \/ \E t \in LockCallers : UnlockBuffer(t)
    \/ \E t \in LockCallers : TableUnlocked(t)
    \/ \E t \in LockCallers : LockKnowledge(t)
    \/ \E t \in LockCallers : NoteLocked(t)
    \/ \E t \in LockCallers : SpawnUnlocked(t)
    \/ \E t \in LockCallers : DispatchReturn(t)

\* every thread inside import_statement keeps being scheduled, and a free
\* mutex is handed to a thread that waits for it
SpecLocks ==
    /\ Init
    /\ [][LocksNext]_vars
    /\ \A t \in LockCallers : WF_vars(LockStep(t))

\* --------------------------------------------------- checked_statements
\* the parent hash of another round
OtherParent == "other parent"

\* the signature of key over a statement in the context of a parent hash
Sign(key, kind, data, parent_hash) == <<"signature", key, kind, data, parent_hash>>

\* polkadot_validation::check_statement(statement, signature, sender, parent_hash)
check_statement(kind, data, signature, sender, parent_hash) ==
    signature = Sign(sender, kind, data, parent_hash)

\* the statement with the opposite vote, or a vote in place of the candidate
Tampered(kind) == IF kind = "Valid" THEN "Invalid" ELSE "Valid"

\* what can come in on the topic for one statement: signed by its sender for
\* this round, for another round, by another key, or over another statement
WireStatements ==
    {[kind |-> s.kind, data |-> s.data, sender |-> s.sender, signature |-> signature] :
        s \in [kind : {"Candidate"}, data : Receipts, sender : Senders]
               \cup [kind : {"Valid", "Invalid"}, data : Hashes, sender : Senders],
        signature \in {"own", "round", "key", "content"}}

WireSignature(w) ==
    CASE w.signature = "own" -> Sign(w.sender, w.kind, w.data, ParentHash)
      [] w.signature = "round" -> Sign(w.sender, w.kind, w.data, OtherParent)
      [] w.signature = "key" -> Sign(LocalKey, w.kind, w.data, ParentHash)
      [] w.signature = "content" -> Sign(w.sender, Tampered(w.kind), w.data, ParentHash)

\* the gossip payloads: bytes that are no statement, and encoded statements
Payloads ==
    {<<"garbage">>} \cup {Encode([w EXCEPT !.signature = WireSignature(w)]) : w \in WireStatements}

\* decoding only: every payload that is a statement is passed on
RECURSIVE checked_statements_unverified(_)
checked_statements_unverified(msgs) ==
    IF msgs = <<>>
    THEN <<>>
    ELSE (IF Decode(Head(msgs))[1] = "Some" THEN <<Decode(Head(msgs))[2]>> ELSE <<>>)
         \o checked_statements_unverified(Tail(msgs))

\* Router::checked_statements, lines 83-94: filter_map(decode), then
\* filter(check_statement(statement, signature, sender, parent_hash))
RECURSIVE checked_statements(_)
checked_statements(msgs) ==
    IF msgs = <<>>
    THEN <<>>
    ELSE LET decoded == Decode(Head(msgs))
             rest == checked_statements(Tail(msgs))
         IN  IF decoded[1] = "None"
             THEN rest
             ELSE IF check_statement(decoded[2].kind, decoded[2].data, decoded[2].signature,
                                     decoded[2].sender, ParentHash)
                  THEN <<decoded[2]>> \o rest
                  ELSE rest

\* the network delivers a payload on the attestation topic and the stream of
\* checked_statements is polled
GossipArrives(msg) ==
    /\ handle[1] = "alive"
    /\ Len(received) < MaxPayloads
    /\ received' = Append(received, msg)
    /\ checked' = checked \o checked_statements(<<msg>>)
    /\ UNCHANGED <<bufferVars, routerVars, egressVars, workVars, lockVars>>

VerifierNext == \E msg \in Payloads : GossipArrives(msg)

SpecVerifier == LifecycleInit /\ [][VerifierNext]_vars

\* one handle: import_statement and local_candidate calls one after the other
LocalNext ==
    \/ \E s \in SignedStatements : ImportBeginLocal(s)
    \/ ImportDefer(1)
    \/ ImportDrain(1)
    \/ ImportTable(1)
    \/ ImportDispatch(1)
    \/ \E receipt \in Receipts : LocalImportValidated(receipt)
    \/ LocalNoteCandidate(1)
    \/ LocalGossip(1)

SpecLocal == LifecycleInit /\ [][LocalNext]_vars

\* one caller importing Candidate statements and submitting local candidates,
\* the executor running the spawned tasks, and the exit future of the round
WorkNext ==
    \/ \E s \in CandidateStatements : ImportBeginWork(s)
    \/ ImportDrain(1)
    \/ ImportTable(1)
    \/ ImportDispatch(1)
    \/ \E receipt \in Receipts : LocalImportValidated(receipt)
    \/ LocalNoteCandidate(1)
    \/ LocalGossip(1)
    \/ \E i \in 1..Len(spawned), outcome \in FetchOutcomes : FetchArrives(i, outcome)
    \/ ExitFires
    \/ \E i \in 1..Len(spawned) : TaskNoteCandidate(i)
    \/ \E i \in 1..Len(spawned) : TaskPropagate(i)
    \/ \E i \in 1..Len(spawned) : TaskFail(i)
    \/ \E i \in 1..Len(spawned) : TaskCancel(i)

SpecWork == LifecycleInit /\ [][WorkNext]_vars

\* ------------------------------------------ broadcast_egress on any input
RECURSIVE SumSizes(_)
SumSizes(sizes) == IF sizes = <<>> THEN 0 ELSE Head(sizes) + SumSizes(Tail(sizes))

\* the Outgoing made of batches of the given sizes cut out of one message sequence
OutgoingOf(sources, sizes, flat) ==
    [b \in 1..Len(sizes) |->
        LET offset == SumSizes(SubSeq(sizes, 1, b - 1))
        IN  [from |-> sources[b], messages |-> SubSeq(flat, offset + 1, offset + sizes[b])]]

EgressInit ==
    /\ BufferInit
    /\ RouterNew
    /\ RoundIdle
    /\ broadcast = FALSE
    /\ gossip = <<>>
    /\ \E nb \in 0..MaxBatches :
         \E sizes \in [1..nb -> 0..MaxMessages] :
           /\ SumSizes(sizes) <= MaxMessages
           /\ \E sources \in [1..nb -> Targets] :
                \E targets \in [1..SumSizes(sizes) -> Targets] :
                  outgoing = OutgoingOf(sources, sizes,
                                        [n \in 1..SumSizes(sizes) |->
                                            OutgoingMessage(targets[n], n)])

\* a call of Router::broadcast_egress(outgoing)
BroadcastEgress ==
    /\ handle[1] = "alive"
    /\ ~broadcast
    /\ gossip' = gossip \o broadcast_egress(outgoing)
    /\ broadcast' = TRUE
    /\ UNCHANGED <<bufferVars, routerVars, outgoing, workVars, lockVars, verifierVars>>

EgressNext == BroadcastEgress

SpecEgress == EgressInit /\ [][EgressNext]_vars

\* ===================================================================
\* Properties of import_statement under concurrent callers (Spec)
\* ===================================================================
IsVote(s) == s.kind \in {"Valid", "Invalid"}

AllIdle == \A t \in Handles : pc[t] = "idle"

\* C1: in every batch handed to import_remote_statements, a Valid(h) or
\* Invalid(h) statement is only present if the table already knew candidate h
\* when the batch was handed over, or the Candidate statement for h stands at
\* an earlier position of the same batch.
C1_VoteNeverBeforeCandidate ==
    \A k \in 1..Len(tableLog) :
        LET batch == tableLog[k].statements
        IN  \A i \in 1..Len(batch) :
                IsVote(batch[i]) =>
                    \/ batch[i].data \in tableLog[k].known
                    \/ \E j \in 1..(i - 1) :
                         /\ batch[j].kind = "Candidate"
                         /\ ReceiptHash(batch[j].data) = batch[i].data

\* C1 witness: the table has received a vote about a candidate it did not
\* know, behind the Candidate statement of the same batch.
C1_Witness ==
    \E k \in 1..Len(tableLog) :
        /\ Len(tableLog[k].statements) >= 2
        /\ IsVote(tableLog[k].statements[2])
        /\ tableLog[k].statements[2].data \notin tableLog[k].known

\* C2: once every import_statement call has returned, no vote is left in the
\* deferred buffer for a candidate the table knows.
C2_NoVoteLeftBehind ==
    AllIdle => \A h \in tableCandidates : h \notin DOMAIN deferred

DistinctTraces(q) ==
    \A i, j \in 1..Len(q) : TraceOf(q[i]) = TraceOf(q[j]) => i = j

\* C3: when the votes that arrived at the buffer for candidate h since its
\* last drain are N distinct votes and the Candidate statement for h is then
\* imported, the batch handed to the table is that Candidate statement
\* followed by the N votes in arrival order.
C3_FlushBatchInArrivalOrder ==
    \A k \in 1..Len(tableLog) :
        LET batch == tableLog[k].statements
        IN  (batch[1].kind = "Candidate" /\ DistinctTraces(tableLog[k].arrived)) =>
                /\ Len(batch) = 1 + Len(tableLog[k].arrived)
                /\ SubSeq(batch, 2, Len(batch)) = tableLog[k].arrived
                /\ \A i \in 2..Len(batch) : batch[i].data = ReceiptHash(batch[1].data)

\* C3 witness: a flush batch of a Candidate statement and two deferred votes
\* of different senders or polarity.
C3_Witness ==
    \E k \in 1..Len(tableLog) :
        /\ tableLog[k].statements[1].kind = "Candidate"
        /\ Len(tableLog[k].arrived) = 2
        /\ DistinctTraces(tableLog[k].arrived)
        /\ Len(tableLog[k].statements) = 3

\* ===================================================================
\* Properties of the deferred buffer driven directly (SpecBuffer)
\* ===================================================================
\* C4: after every push or get_deferred, no queue holds two statements with
\* the same (sender, candidate, polarity); a push of a vote whose trace is
\* already in known_traces changes neither the queues nor the trace set.
C4_DedupWhileDeferred ==
    [][LET call == history'[Len(history')]
       IN  /\ \A h \in DOMAIN deferred' : DistinctTraces(deferred'[h])
           /\ (/\ call.op = "push"
               /\ IsVote(call.arg)
               /\ TraceOf(call.arg) \in known_traces)
              => (deferred' = deferred /\ known_traces' = known_traces)]_vars

\* C4 witness: the same vote was pushed twice in a row and its queue holds one
\* statement.
C4_Witness ==
    /\ Len(history) >= 2
    /\ LET n == Len(history)
       IN  /\ history[n].op = "push"
           /\ history[n - 1].op = "push"
           /\ IsVote(history[n].arg)
           /\ history[n - 1].arg = history[n].arg
           /\ history[n].arg.data \in DOMAIN deferred
           /\ deferred[history[n].arg.data] = <<history[n].arg>>

\* C5: get_deferred(h) returns the whole queue of h and the trace of each
\* returned statement, and leaves no queue for h; a get_deferred(h) right
\* after a get_deferred(h) returns two empty lists; a push right after a
\* get_deferred, of a vote whose trace that get_deferred returned, is queued.
C5_DrainThenReset ==
    [][LET n == Len(history')
           call == history'[n]
       IN  /\ call.op = "get_deferred" =>
                /\ call.statements =
                     (IF call.arg \in DOMAIN deferred THEN deferred[call.arg] ELSE <<>>)
                /\ Len(call.traces) = Len(call.statements)
                /\ \A i \in 1..Len(call.statements) :
                     call.traces[i] = TraceOf(call.statements[i])
                /\ call.arg \notin DOMAIN deferred'
                /\ (/\ n >= 2
                    /\ history'[n - 1].op = "get_deferred"
                    /\ history'[n - 1].arg = call.arg)
                   => (call.statements = <<>> /\ call.traces = <<>>)
           /\ (/\ call.op = "push"
               /\ IsVote(call.arg)
               /\ n >= 2
               /\ history'[n - 1].op = "get_deferred"
               /\ TraceOf(call.arg) \in SeqRange(history'[n - 1].traces))
              => /\ call.arg.data \in DOMAIN deferred'
                 /\ deferred'[call.arg.data] = <<call.arg>>
                 /\ TraceOf(call.arg) \in known_traces']_vars

\* C5 witness: a vote was pushed, drained, then pushed and queued again.
C5_Witness ==
    /\ Len(history) = 3
    /\ history[1].op = "push"
    /\ IsVote(history[1].arg)
    /\ history[2].op = "get_deferred"
    /\ history[2].statements = <<history[1].arg>>
    /\ history[2].traces = <<TraceOf(history[1].arg)>>
    /\ history[3] = history[1]
    /\ history[1].arg.data \in DOMAIN deferred
    /\ deferred[history[1].arg.data] = <<history[1].arg>>

AllTraces == {StatementTrace(k, sender, h) :
                  k \in {"Valid", "Invalid"}, sender \in Senders, h \in Hashes}

\* C6: a trace (sender, h, polarity) is in known_traces if and only if the
\* queue deferred[h] holds a statement of that sender and polarity about h.
C6_TracesMatchQueues ==
    /\ known_traces \subseteq AllTraces
    /\ \A trace \in AllTraces :
         trace \in known_traces <=>
            /\ trace[3] \in DOMAIN deferred
            /\ \E i \in 1..Len(deferred[trace[3]]) :
                 LET s == deferred[trace[3]][i]
                 IN  s.kind = trace[1] /\ s.sender = trace[2] /\ s.data = trace[3]

\* C6 witness: a get_deferred drained a non-empty queue and traces remain for
\* other votes.
C6_Witness ==
    /\ known_traces # {}
    /\ \E i \in 1..Len(history) :
         history[i].op = "get_deferred" /\ history[i].statements # <<>>

\* ===================================================================
\* Candidate statements and the buffer (Spec)
\* ===================================================================
CandidateBatches == {k \in 1..Len(tableLog) : tableLog[k].statements[1].kind = "Candidate"}

\* C7: in every reachable state push of any Candidate statement would leave
\* the buffer as it is, no import_statement call is about to defer a
\* Candidate statement, no queue holds one, and a call with a Candidate
\* statement that is past the table import has handed the table a batch
\* headed by that statement.
C7_CandidateNeverDeferred ==
    /\ \A s \in CandidateStatements : push(Buffer, s) = Buffer
    /\ \A t \in Handles : pc[t] = "push" => statement[t].kind # "Candidate"
    /\ \A h \in DOMAIN deferred :
         \A i \in 1..Len(deferred[h]) : deferred[h][i].kind # "Candidate"
    /\ \A t \in Handles :
         (pc[t] = "dispatch" /\ statement[t].kind = "Candidate") =>
             \E k \in 1..Len(tableLog) : tableLog[k].statements[1] = statement[t]

\* C7 witness: a call with a Candidate statement found votes in the buffer and
\* has handed its batch to the table.
C7_Witness ==
    \E t \in Handles :
        /\ pc[t] = "dispatch"
        /\ statement[t].kind = "Candidate"
        /\ Len(statements[t]) >= 2
        /\ CandidateBatches # {}

\* ===================================================================
\* import_statement called by one caller, one call after the other
\* (SpecSequential)
\* ===================================================================
\* C8: with candidate H unknown, after Valid(H) from S is imported, and after
\* it is imported a second time, the table has received no batch; after the
\* Candidate statement for H is then imported the table has received exactly
\* one batch: that Candidate statement followed by the one Valid(H).
C8_EndToEnd ==
    \A v \in VoteStatements, c \in CandidateStatements :
        (v.kind = "Valid" /\ ReceiptHash(c.data) = v.data) =>
            /\ submitted \in {<<v>>, <<v, v>>} => tableLog = <<>>
            /\ (submitted = <<v, v, c>> /\ pc[1] \in {"dispatch", "idle"}) =>
                   /\ Len(tableLog) = 1
                   /\ tableLog[1].statements = <<c, v>>

\* C8 witness: the three calls have returned and the table got one batch.
C8_Witness ==
    /\ Len(submitted) = 3
    /\ submitted[1].kind = "Valid"
    /\ submitted[2] = submitted[1]
    /\ submitted[3].kind = "Candidate"
    /\ ReceiptHash(submitted[3].data) = submitted[1].data
    /\ pc[1] = "idle"
    /\ Len(tableLog) = 1

\* ===================================================================
\* Teardown (SpecLifecycle)
\* ===================================================================
Dropped == {t \in Handles : handle[t] = "dropped"}

\* C10: every drop_gossip call is on the attestation topic and there are
\* exactly as many calls as destroyed Router handles: each destruction makes
\* one call, none is made while no handle has been destroyed, and
\* import_statement calls make none.
C10_DropUnsubscribesOnce ==
    /\ Len(dropGossip) = Cardinality(Dropped)
    /\ \A i \in 1..Len(dropGossip) : dropGossip[i] = attestation_topic(ParentHash)

\* C10 witness: the Router was destroyed without import_statement ever having
\* been called, and one unsubscribe call was made.
C10_Witness ==
    /\ handle[1] = "dropped"
    /\ calls = 0
    /\ dropGossip = <<attestation_topic(ParentHash)>>

\* ===================================================================
\* Egress grouping (SpecEgress)
\* ===================================================================
\* the messages of all batches in input order, each with its batch and source
RECURSIVE FlatMessages(_, _)
FlatMessages(out, b) ==
    IF b > Len(out)
    THEN <<>>
    ELSE [i \in 1..Len(out[b].messages) |->
             [batch |-> b, source |-> out[b].from,
              target |-> out[b].messages[i].target, data |-> out[b].messages[i].data]]
         \o FlatMessages(out, b + 1)

\* positions where a run starts: the first message of a batch, and every
\* message whose target differs from that of the message before it
RunStarts(flat) ==
    {i \in 1..Len(flat) :
        \/ i = 1
        \/ flat[i].batch # flat[i - 1].batch
        \/ flat[i].target # flat[i - 1].target}

\* the position where the j-th run starts; one past the end for j beyond the last
RunStart(flat, j) ==
    IF j > Cardinality(RunStarts(flat))
    THEN Len(flat) + 1
    ELSE CHOOSE i \in RunStarts(flat) : Cardinality({x \in RunStarts(flat) : x <= i}) = j

\* C9: broadcast_egress makes exactly one gossip send per maximal run of
\* consecutive messages of one batch with equal target, in input order; the
\* j-th send carries the source of the run's batch and the run's payloads in
\* order, on the topic of (parent hash, the run's target).
C9_EgressGroupsAdjacentRuns ==
    broadcast =>
        LET flat == FlatMessages(outgoing, 1)
        IN  /\ Len(gossip) = Cardinality(RunStarts(flat))
            /\ \A j \in 1..Len(gossip) :
                 LET first == RunStart(flat, j)
                     last == RunStart(flat, j + 1) - 1
                 IN  /\ gossip[j].topic =
                          incoming_message_topic(ParentHash, flat[first].target)
                     /\ gossip[j].message =
                          <<flat[first].source,
                            [i \in 1..(last - first + 1) |->
                                <<"Message", flat[first + i - 1].data>>]>>

\* C9 witness: one batch with targets T1, T1, T2, T1 was broadcast as three
\* sends, to T1, T2 and T1.
C9_Witness ==
    /\ broadcast
    /\ Len(outgoing) = 1
    /\ Len(outgoing[1].messages) = 4
    /\ outgoing[1].messages[1].target = 1
    /\ outgoing[1].messages[2].target = 1
    /\ outgoing[1].messages[3].target = 2
    /\ outgoing[1].messages[4].target = 1
    /\ Len(gossip) = 3
    /\ gossip[1].message[2] = <<<<"Message", 1>>, <<"Message", 2>>>>
    /\ gossip[2].message[2] = <<<<"Message", 3>>>>
    /\ gossip[3].message[2] = <<<<"Message", 4>>>>
    /\ gossip[3].topic = incoming_message_topic(ParentHash, 1)

\* ===================================================================
\* Properties of import_statement mixed with local_candidate (SpecLocal)
\* ===================================================================
\* C11: whenever the single caller is between calls of import_statement and
\* local_candidate, the deferred buffer holds no queue and no trace for a
\* candidate the table already knows.
C11_NoEntryForKnownCandidate ==
    pc[1] = "idle" =>
        /\ \A hash \in tableCandidates : hash \notin DOMAIN deferred
        /\ \A trace \in known_traces : trace[3] \notin tableCandidates

\* C12: once import_statement has built the batch for a statement whose
\* candidate is known (a Candidate statement, or a vote on a candidate the
\* table has imported), nothing deferred for that candidate is left in the
\* buffer, and the batch is the statement followed by what was deferred.
C12_KnownCandidateDrainsQueue ==
    pc[1] = "import" =>
        /\ c_hash(statement[1]) \notin DOMAIN deferred
        /\ statements[1][1] = statement[1]
        /\ \A i \in 1..Len(flushed[1]) :
             \E j \in 2..Len(statements[1]) : TraceOf(statements[1][j]) = TraceOf(flushed[1][i])

\* ===================================================================
\* Properties of the validation tasks and of local_candidate (SpecWork)
\* ===================================================================
\* the statements gossiped on the attestation topic so far
GossipedStatements ==
    {Decode(gossip[n].message)[2] :
        n \in {k \in 1..Len(gossip) : gossip[k].topic = attestation_topic(ParentHash)}}

\* C13: store before broadcast: in no reachable state has a statement made by
\* a validation task or by local_candidate been gossiped on the attestation
\* topic while the payload of its candidate is not recorded by note_candidate.
C13_StoreBeforeBroadcast ==
    \A s \in GossipedStatements : c_hash(s) \in knowledgeCandidates

\* a validation task and local_candidate have both gossiped their statement
C13_Witness ==
    /\ \E s \in GossipedStatements : s.kind = "Candidate"
    /\ \E s \in GossipedStatements : IsVote(s)

\* C14 as stated: a task whose fetch/validate step had not finished when the
\* exit signal completed ends without calling note_candidate,
\* import_validated or gossip_message.
C14_ExitFirstNoEffects ==
    \A i \in 1..Len(spawned) : spawned[i].exitFirst => spawned[i].effects = {}

\* C14: a task polled when the exit signal has completed and its
\* fetch/validate step has not ends cancelled, having called none of
\* note_candidate, import_validated and gossip_message; a task runs its side
\* effects only for a fetch/validate step that had finished with a Validated
\* when it was polled, and what it has recorded stays recorded.
C14_CancelAtPoll ==
    \A i \in 1..Len(spawned) :
        /\ spawned[i].state = "cancelled" =>
              /\ spawned[i].effects = {}
              /\ spawned[i].fetch = "none"
              /\ exit
        /\ spawned[i].effects # {} => spawned[i].fetch \in {"Valid", "Invalid"}
        /\ "note_candidate" \in spawned[i].effects =>
              spawned[i].candidate_hash \in knowledgeCandidates

\* a task has been cancelled while the payload of a local candidate stays recorded
C14_Witness ==
    /\ \E i \in 1..Len(spawned) : spawned[i].state = "cancelled"
    /\ knowledgeCandidates # {}

\* C15: a task whose fetch or execution failed ends having called none of
\* note_candidate, import_validated and gossip_message, stays ended, and no
\* task is spawned except by an import_statement call for a producer the
\* table returned to it.
C15_FailureDropped ==
    [][
       /\ \A i \in 1..Len(spawned) :
            spawned[i].fetch = "Error" =>
                (/\ spawned[i].effects = {}
                 /\ spawned'[i].effects = {}
                 /\ (spawned[i].state = "failed" => spawned'[i] = spawned[i]))
       /\ Len(spawned') >= Len(spawned)
       /\ Len(spawned') > Len(spawned) =>
                (/\ pc[1] = "dispatch"
                 /\ Len(spawned') - Len(spawned) =
                       Len(SelectSeq(producers[1], LAMBDA producer : producer[1] = "Some")))
    ]_vars

\* a task has ended on a failed fetch or execution
C15_Witness ==
    \E i \in 1..Len(spawned) : spawned[i].state = "failed"

\* ===================================================================
\* Properties of the dispatch loop under one caller (SpecSequential)
\* ===================================================================
\* the batches whose import_statement call has finished its dispatch loop
DispatchedBatches ==
    IF pc[1] = "dispatch" THEN SubSeq(tableLog, 1, Len(tableLog) - 1) ELSE tableLog

\* every statement of the given batches with its sender, batch after batch
RECURSIVE StatementsWithSender(_)
StatementsWithSender(log) ==
    IF log = <<>>
    THEN <<>>
    ELSE [i \in 1..Len(Head(log).statements) |->
             <<Head(log).statements[i].sender, Head(log).statements[i]>>]
         \o StatementsWithSender(Tail(log))

\* C16: the note_statement calls made so far are exactly one per statement
\* of every batch handed to the table and dispatched, in batch order, with
\* the statement's sender, whether or not the statement unlocked a producer;
\* no statement waiting in the deferred buffer has been noted.
C16_EveryBatchStatementNoted ==
    /\ noted = StatementsWithSender(DispatchedBatches)
    /\ \A hash \in DOMAIN deferred :
         \A i \in 1..Len(deferred[hash]) :
           \A n \in 1..Len(noted) : noted[n] # <<deferred[hash][i].sender, deferred[hash][i]>>

\* a flush batch of a Candidate statement, which unlocked a producer, and a
\* deferred vote, which did not, has been noted
C16_Witness ==
    /\ pc[1] = "idle"
    /\ Len(spawned) = 1
    /\ Len(noted) = 2
    /\ Len(tableLog) = 1
    /\ noted[1][2].kind = "Candidate"
    /\ IsVote(noted[2][2])

\* C17: the dispatch loop of an import_statement call spawns exactly one
\* task per producer the table returned for the batch and none for the other
\* statements, and the call returns with the tasks it spawned not yet run.
C17_OneTaskPerProducer ==
    [][
       (pc[1] = "dispatch" /\ pc'[1] = "idle") =>
           LET unlocked == Len(SelectSeq(producers[1], LAMBDA producer : producer[1] = "Some"))
           IN  /\ Len(spawned') = Len(spawned) + unlocked
               /\ SubSeq(spawned', 1, Len(spawned)) = spawned
               /\ \A i \in (Len(spawned) + 1)..Len(spawned') :
                    /\ spawned'[i].candidate_hash = c_hash(statement[1])
                    /\ spawned'[i].state = "pending"
                    /\ spawned'[i].fetch = "none"
                    /\ spawned'[i].effects = {}
    ]_vars

\* import_statement has returned from a batch of a Candidate statement and a
\* flushed vote with one task spawned, which has not run
C17_Witness ==
    /\ pc[1] = "idle"
    /\ Len(tableLog) = 1
    /\ Len(tableLog[1].statements) = 2
    /\ Len(spawned) = 1
    /\ spawned[1].state = "pending"
    /\ spawned[1].fetch = "none"

\* ===================================================================
\* Properties of checked_statements (SpecVerifier)
\* ===================================================================
\* a payload that is an encoded statement signed by its sender over its
\* content and the parent hash of this round
WellSigned(msg) ==
    /\ msg[1] = "SignedStatement"
    /\ msg[2].signature = <<"signature", msg[2].sender, msg[2].kind, msg[2].data, ParentHash>>

\* C18: the items produced by checked_statements are, in arrival order, the
\* statements of exactly those payloads delivered so far that decode to a
\* signed statement whose signature verifies against its content, its
\* sender and the parent hash; the other payloads are produced neither then
\* nor later.
C18_OnlyVerifiedInOrder ==
    LET passed == SelectSeq(received, WellSigned)
    IN  checked = [n \in 1..Len(passed) |-> passed[n][2]]

\* a badly signed statement was dropped and the well signed one after it produced
C18_Witness ==
    /\ Len(received) = 2
    /\ received[1][1] = "SignedStatement"
    /\ ~WellSigned(received[1])
    /\ WellSigned(received[2])
    /\ checked = <<received[2][2]>>

\* ===================================================================
\* Properties of cloned handles (SpecLifecycle)
\* ===================================================================
\* C19: the handles cloned from one Router share its attestation topic, and
\* the topic is unsubscribed only when the last of them is destroyed: at
\* most one drop_gossip call is ever made, and once it has been made no
\* handle is alive.
C19_UnsubscribeWithLastHandle ==
    /\ Len(dropGossip) <= 1
    /\ \A i \in 1..Len(dropGossip) : dropGossip[i] = attestation_topic(ParentHash)
    /\ dropGossip # <<>> => \A t \in Handles : handle[t] # "alive"

\* ===================================================================
\* Properties of the mutexes inside import_statement (SpecLocks)
\* ===================================================================
\* the call of thread t, if any, has returned and t holds no mutex
Returned(t) == pc[t] = "idle" /\ bufferLock # t /\ knowledgeLock # t

\* the deferred-buffer mutex is held only around the push or the get_deferred,
\* the knowledge mutex only inside the dispatch loop, never both by one thread
LockDiscipline ==
    \A t \in LockCallers :
        /\ bufferLock = t => /\ knowledgeLock # t
                             /\ pc[t] \in {"push", "drain", "idle", "import"}
                             /\ pc[t] = "import" => statements[t] # <<>>
                             /\ producers[t] = <<>>
        /\ knowledgeLock = t => pc[t] = "dispatch"

\* C20: import_statement holds the deferred-buffer mutex only for its single
\* push or get_deferred, never across the call of the table, the knowledge
\* tracker or the executor and never together with the knowledge mutex, and
\* under every fair interleaving of concurrent calls every call returns.
C20_ShortSectionsAndTermination ==
    /\ []LockDiscipline
    /\ \A t \in LockCallers : (~Returned(t)) ~> Returned(t)

\* one thread holds the deferred-buffer mutex while another waits for it
C20_Witness ==
    /\ bufferLock = 1
    /\ pc[1] = "push"
    /\ pc[2] = "drain"
    /\ statement[2].kind = "Candidate"

====
